---- MODULE Spec2Model ----
(***************************************************************************)
(* State-machine model of the DisposableBrowser component                  *)
(* (src/src/app/layout.tsx): the signaling handshake, the peer-connection  *)
(* state notifications, the scroll coalescer, the input handlers, the      *)
(* navigation bar and the clipboard bridge.                                *)
(*                                                                         *)
(* Every await of the source is a suspension point: the part of a handler  *)
(* that runs up to an await is one action, and the settlement of the       *)
(* awaited promise (resolved or rejected) is another.  Text values (URLs,  *)
(* clipboard text) are sequences of one-character strings so that trim,    *)
(* the URL pattern and percent-encoding are computed character by          *)
(* character.                                                              *)
(***************************************************************************)
EXTENDS Integers, Sequences, FiniteSets

\* ------------------------------------------------------------------ bounds

\* Largest number of handler invocations suspended at an await at one time.
MaxTasks == 2

\* ------------------------------------------------------- program constants

ScrollDelay == 16
BurstWindow == 100
TrackpadThreshold == 50
TrackpadMultiplier == 8
WheelMultiplier == 3
\* x: Math.round(x * (1280 / rect.width)), y: Math.round(y * (720 / rect.height))
RemoteWidth == 1280
RemoteHeight == 720

\* ------------------------------------------------------------------- text

NULL == "<null>"

\* the prefix tested by input.startsWith('http')
HttpPrefix == <<"h", "t", "t", "p">>
HttpScheme == HttpPrefix \o <<":", "/", "/">>
HttpsScheme == HttpPrefix \o <<"s", ":", "/", "/">>

\* useState('https://www.google.com')
InitialUrl == HttpsScheme \o <<"w", "w", "w", ".", "g", "o", "o", "g", "l", "e", ".", "c", "o", "m">>

\* `https://www.google.com/search?q=`
SearchPrefix == InitialUrl \o <<"/", "s", "e", "a", "r", "c", "h", "?", "q", "=">>

Txt_example_com == <<"e", "x", "a", "m", "p", "l", "e", ".", "c", "o", "m">>
Txt_buy_milk == <<"b", "u", "y", " ", "m", "i", "l", "k">>

\* Texts the user types into the address field.
InputTexts == {Txt_example_com, Txt_buy_milk}

\* More texts for the address field: a host that starts with the letters
\* "http", texts with a scheme, a text with blanks around it, a query with a
\* reserved character, and the empty text.
Txt_httpbin_org == <<"h", "t", "t", "p", "b", "i", "n", ".", "o", "r", "g">>
Txt_a_io == <<"a", ".", "i", "o">>
SubmitTexts ==
    InputTexts \cup
    {Txt_httpbin_org, HttpsScheme \o Txt_a_io, HttpScheme \o Txt_a_io \o <<"/", "b">>,
     <<" ">> \o Txt_a_io \o <<" ">>, <<"a", "&", "b">>, <<>>}

\* Texts held by the local system clipboard / returned by the remote copy.
ClipTexts == {<<>>, <<"t">>}

Letters == {"a", "b", "c", "d", "e", "f", "g", "h", "i", "j", "k", "l", "m",
            "n", "o", "p", "q", "r", "s", "t", "u", "v", "w", "x", "y", "z"}
Digits == {"0", "1", "2", "3", "4", "5", "6", "7", "8", "9"}

\* \w of the pattern
WordChar(c) == c \in Letters \cup Digits \cup {"_"}

\* [\w-]
LabelChar(c) == WordChar(c) \/ c = "-"

\* [\w- ./?%&=]
PathChar(c) == WordChar(c) \/ c \in {"-", " ", ".", "/", "?", "%", "&", "="}

WhiteSpace(c) == c \in {" ", "\t", "\n"}

StartsWith(s, p) == Len(s) >= Len(p) /\ SubSeq(s, 1, Len(p)) = p

Drop(s, n) == SubSeq(s, n + 1, Len(s))

RECURSIVE TrimStart(_)
TrimStart(s) == IF s # <<>> /\ WhiteSpace(Head(s)) THEN TrimStart(Tail(s)) ELSE s

RECURSIVE TrimEnd(_)
TrimEnd(s) ==
    IF s # <<>> /\ WhiteSpace(s[Len(s)]) THEN TrimEnd(SubSeq(s, 1, Len(s) - 1)) ELSE s

\* String.prototype.trim
Trim(s) == TrimEnd(TrimStart(s))

\* ([\w-]+\.)+[\w-]+ : labels of label characters, at least two, none empty
\* (a label holds no dot, so the match is decided by the places of the dots).
HostMatch(s) ==
    /\ s # <<>>
    /\ \A i \in 1..Len(s) : LabelChar(s[i]) \/ s[i] = "."
    /\ \E i \in 1..Len(s) : s[i] = "."
    /\ s[1] # "." /\ s[Len(s)] # "."
    /\ \A i \in 1..(Len(s) - 1) : ~(s[i] = "." /\ s[i + 1] = ".")

\* ([\w-]+\.)+[\w-]+(\/[\w- ./?%&=]*)?$ : the host holds no slash, so the
\* optional path group can only start at the first slash.
HostPathMatch(s) ==
    IF \E i \in 1..Len(s) : s[i] = "/"
    THEN LET k == CHOOSE i \in 1..Len(s) :
                      s[i] = "/" /\ \A j \in 1..(i - 1) : s[j] # "/"
         IN /\ HostMatch(SubSeq(s, 1, k - 1))
            /\ \A j \in k..Len(s) : PathChar(s[j])
    ELSE HostMatch(s)

\* /^(https?:\/\/)?([\w-]+\.)+[\w-]+(\/[\w- ./?%&=]*)?$/.test(input)
IsUrl(s) ==
    \/ HostPathMatch(s)
    \/ StartsWith(s, HttpScheme) /\ HostPathMatch(Drop(s, Len(HttpScheme)))
    \/ StartsWith(s, HttpsScheme) /\ HostPathMatch(Drop(s, Len(HttpsScheme)))

\* encodeURIComponent on one character: the unreserved characters are kept,
\* every other one becomes the percent-escape of its byte.
PercentEncode(c) ==
    IF WordChar(c) \/ c \in {"-", ".", "!", "~", "*", "'", "(", ")"} THEN <<c>>
    ELSE IF c = " " THEN <<"%", "2", "0">>
    ELSE IF c = "%" THEN <<"%", "2", "5">>
    ELSE IF c = "&" THEN <<"%", "2", "6">>
    ELSE IF c = "/" THEN <<"%", "2", "F">>
    ELSE IF c = ":" THEN <<"%", "3", "A">>
    ELSE IF c = "=" THEN <<"%", "3", "D">>
    ELSE IF c = "?" THEN <<"%", "3", "F">>
    ELSE <<"%", "?", "?">>

RECURSIVE EncodeURIComponent(_)
EncodeURIComponent(s) ==
    IF s = <<>> THEN <<>> ELSE PercentEncode(Head(s)) \o EncodeURIComponent(Tail(s))

\* handleSubmit: the URL handed to navigate for the text of the address field.
SubmitTarget(text) ==
    LET input == Trim(text)
    IN IF IsUrl(input)
       THEN IF StartsWith(input, HttpPrefix) THEN input ELSE HttpsScheme \o input
       ELSE SearchPrefix \o EncodeURIComponent(input)

\* ------------------------------------------------------------------ state

VARIABLES
    mounted,          \* the component is mounted (its effects are active)
    hs,               \* hs[a]: where the initBrowser call of activation a stands
    pc,               \* pc[a]: connectionState of the RTCPeerConnection of activation a
    peerConnection,   \* the ref: the activation whose connection it holds, 0 for null
    offers,           \* offers[a]: POST /offer requests issued by activation a
    sessionId,        \* useState<string | null>(null)
    error,            \* useState<string | null>(null)
    url,              \* useState('https://www.google.com')
    isLoading,        \* useState(false)
    isConnected,      \* useState(false)
    wheelListener,    \* the wheel effect has a listener attached (and a cleanup registered)
    timers,           \* the timeouts that are scheduled and not yet run or cleared
    scrollTimeout,    \* the ref: id of the timeout created last, 0 for undefined
    sinceScroll,      \* min(Date.now() - lastScrollTime.current, BurstWindow)
    burst,            \* history: the wheel events handled since the last quiet period
    tasks,            \* the handler invocations suspended at an await, oldest first
    settled           \* what the last step settled (a promise outcome), if anything

vars == <<mounted, hs, pc, peerConnection, offers, sessionId, error, url, isLoading,
          isConnected, wheelListener, timers, scrollTimeout, sinceScroll, burst,
          tasks, settled>>

\* The effect of the first useEffect runs once per activation; React's strict
\* mode runs it, cleans it up and runs it again on mount.
Activations == {1, 2}

\* Elapsed times told apart by the scroll handler: under ScrollDelay, at
\* ScrollDelay, and BurstWindow or more.
TimePoints == {10, ScrollDelay, BurstWindow}

\* e.deltaY of the wheel events.
WheelDeltas == {-120, 40, 120}

\* (key, ctrlKey, metaKey) of the key-down events.
KeyInputs == {<<"a", FALSE, FALSE>>, <<"a", TRUE, FALSE>>,
              <<"c", TRUE, FALSE>>, <<"v", FALSE, TRUE>>}

\* session_id of the answer to the offer of activation a.
SessionIdOf(a) == IF a = 1 THEN "abc" ELSE "xyz"

\* error.message of what the awaited step threw.
ErrorMessage(stage) ==
    IF stage = "status" THEN "Failed to send offer" ELSE "<" \o stage \o " error>"

NoSettle == [outcome |-> "none"]
NoBurst == [n |-> 0, d |-> 0, gap |-> 0, emitted |-> 0]

RemoveAt(s, i) == SubSeq(s, 1, i - 1) \o SubSeq(s, i + 1, Len(s))

Abs(n) == IF n < 0 THEN -n ELSE n

\* {error ? ... : <video .../>}: the video element exists while no error is set.
VideoRendered == mounted /\ error = NULL

\* A handler can suspend only while the model has room for it.
CanStart == Len(tasks) < MaxTasks

\* The state right after the first render's effects ran: initBrowser has
\* created the connection and is suspended at createOffer (created = TRUE),
\* or the RTCPeerConnection constructor threw and the catch set the error.
Mounted(created) ==
    /\ mounted = TRUE
    /\ hs = [a \in Activations |->
                IF a = 1 THEN (IF created THEN "createOffer" ELSE "failed") ELSE "idle"]
    /\ pc = [a \in Activations |-> IF a = 1 /\ created THEN "new" ELSE "none"]
    /\ peerConnection = (IF created THEN 1 ELSE 0)
    /\ offers = [a \in Activations |-> 0]
    /\ sessionId = NULL
    /\ error = (IF created THEN NULL ELSE ErrorMessage("RTCPeerConnection"))
    /\ url = InitialUrl
    /\ isLoading = FALSE
    /\ isConnected = FALSE
    /\ wheelListener = TRUE
    /\ timers = {}
    /\ scrollTimeout = 0
    /\ sinceScroll = BurstWindow
    /\ burst = NoBurst
    /\ tasks = <<>>
    /\ settled = NoSettle

Init == \E created \in BOOLEAN : Mounted(created)

\* ---------------------------------------------------- signaling handshake

\* pc.close(): the connection is closed without a state-change notification;
\* an operation of the connection that is still pending never settles.
Closed(a, stages) ==
    [b \in Activations |->
        IF b = a /\ stages[b] \in {"createOffer", "setLocalDescription", "setRemoteDescription"}
        THEN "stalled" ELSE stages[b]]

\* await pc.createOffer(...) resolves; pc.setLocalDescription(offer) is called.
CreateOfferResolved(a) ==
    /\ hs[a] = "createOffer"
    /\ pc[a] # "closed"
    /\ hs' = [hs EXCEPT ![a] = "setLocalDescription"]
    /\ settled' = NoSettle
    /\ UNCHANGED <<mounted, pc, peerConnection, offers, sessionId, error, url, isLoading,
                   isConnected, wheelListener, timers, scrollTimeout, sinceScroll, burst,
                   tasks>>

\* await pc.setLocalDescription(offer) resolves; the offer is posted.
SetLocalDescriptionResolved(a) ==
    /\ hs[a] = "setLocalDescription"
    /\ pc[a] # "closed"
    /\ hs' = [hs EXCEPT ![a] = "fetch"]
    /\ offers' = [offers EXCEPT ![a] = @ + 1]
    /\ settled' = NoSettle
    /\ UNCHANGED <<mounted, pc, peerConnection, sessionId, error, url, isLoading,
                   isConnected, wheelListener, timers, scrollTimeout, sinceScroll, burst,
                   tasks>>

\* Faulty variant of HandshakeCatch: only the non-ok response sets the error state.
HandshakeCatchStatusOnly(a, stage) ==
    /\ hs' = [hs EXCEPT ![a] = "failed"]
    /\ error' = (IF stage = "status" THEN ErrorMessage(stage) ELSE error)

\* catch (error) { setError(error instanceof Error ? error.message : ...) }
HandshakeCatch(a, stage) ==
    /\ hs' = [hs EXCEPT ![a] = "failed"]
    /\ error' = ErrorMessage(stage)

\* await fetch(`${apiUrl}/offer`) resolves with a response; a response that is
\* not ok throws, an ok one has response.json() called on it.
OfferResponse(a, ok) ==
    /\ hs[a] = "fetch"
    /\ IF ok THEN hs' = [hs EXCEPT ![a] = "json"] /\ error' = error
             ELSE HandshakeCatch(a, "status")
    /\ settled' = NoSettle
    /\ UNCHANGED <<mounted, pc, peerConnection, offers, sessionId, url, isLoading,
                   isConnected, wheelListener, timers, scrollTimeout, sinceScroll, burst,
                   tasks>>

\* The wheel effect has [sessionId] as its dependencies: when the identifier
\* changes its cleanup runs (clearTimeout of the timeout in the ref) and the
\* effect runs again, attaching a listener if the video element exists.
WheelEffectRerun(newId) ==
    IF mounted /\ newId # sessionId
    THEN /\ timers' = (IF wheelListener THEN {t \in timers : t.id # scrollTimeout} ELSE timers)
         /\ wheelListener' = (error = NULL)
    ELSE UNCHANGED <<timers, wheelListener>>

\* await response.json() resolves: setSessionId(session_id), then
\* pc.setRemoteDescription(...) is called.
ResponseJsonResolved(a) ==
    /\ hs[a] = "json"
    /\ hs' = [hs EXCEPT ![a] = "setRemoteDescription"]
    /\ sessionId' = SessionIdOf(a)
    /\ WheelEffectRerun(SessionIdOf(a))
    /\ settled' = NoSettle
    /\ UNCHANGED <<mounted, pc, peerConnection, offers, error, url, isLoading,
                   isConnected, scrollTimeout, sinceScroll, burst, tasks>>

\* await pc.setRemoteDescription(...) resolves: the handshake is complete.
SetRemoteDescriptionResolved(a) ==
    /\ hs[a] = "setRemoteDescription"
    /\ pc[a] # "closed"
    /\ hs' = [hs EXCEPT ![a] = "done"]
    /\ settled' = NoSettle
    /\ UNCHANGED <<mounted, pc, peerConnection, offers, sessionId, error, url, isLoading,
                   isConnected, wheelListener, timers, scrollTimeout, sinceScroll, burst,
                   tasks>>

\* The awaited step rejects: createOffer, setLocalDescription, the fetch
\* (network error), response.json() (malformed body) or setRemoteDescription
\* (answer not applicable, or the connection is closed).
HandshakeRejected(a) ==
    /\ hs[a] \in {"createOffer", "setLocalDescription", "fetch", "json",
                  "setRemoteDescription"}
    /\ HandshakeCatch(a, hs[a])
    /\ settled' = NoSettle
    /\ UNCHANGED <<mounted, pc, peerConnection, offers, sessionId, url, isLoading,
                   isConnected, wheelListener, timers, scrollTimeout, sinceScroll, burst,
                   tasks>>

\* ------------------------------------------------ connection state machine

\* The connectionState changes the platform makes on an open connection.  The
\* connection leaves "new" only once both descriptions are set.
PcTransitions ==
    {<<"new", "connecting">>, <<"connecting", "connected">>, <<"connecting", "failed">>,
     <<"connected", "disconnected">>, <<"connected", "failed">>,
     <<"disconnected", "connected">>, <<"disconnected", "failed">>}

\* pc.onconnectionstatechange = () => setIsConnected(pc.connectionState === 'connected')
OnConnectionStateChange(a, s) ==
    /\ <<pc[a], s>> \in PcTransitions
    /\ hs[a] = "done"
    /\ pc' = [pc EXCEPT ![a] = s]
    /\ isConnected' = (s = "connected")
    /\ settled' = NoSettle
    /\ UNCHANGED <<mounted, hs, peerConnection, offers, sessionId, error, url, isLoading,
                   wheelListener, timers, scrollTimeout, sinceScroll, burst, tasks>>

\* ------------------------------------------------------------ activation

\* Cleanup of the first effect: if (peerConnection.current) peerConnection.current.close()
CloseCurrent(conns) ==
    [a \in Activations |-> IF a = peerConnection /\ conns[a] # "none" THEN "closed" ELSE conns[a]]

\* Cleanup of the wheel effect: clearTimeout(scrollTimeout.current)
WheelCleanup(ts) == IF wheelListener THEN {t \in ts : t.id # scrollTimeout} ELSE ts

\* Strict mode: right after the first mount, before any event, the effects are
\* cleaned up and run a second time with the same state and refs.
StrictRemount ==
    /\ \E created \in BOOLEAN : Mounted(created)
    /\ \E created \in BOOLEAN :
        /\ pc' = [CloseCurrent(pc) EXCEPT ![2] = IF created THEN "new" ELSE "none"]
        /\ peerConnection' = (IF created THEN 2 ELSE peerConnection)
        /\ hs' = [Closed(peerConnection, hs) EXCEPT
                     ![2] = IF created THEN "createOffer" ELSE "failed"]
        /\ error' = (IF created THEN error ELSE ErrorMessage("RTCPeerConnection"))
    /\ timers' = WheelCleanup(timers)
    /\ wheelListener' = TRUE
    /\ settled' = NoSettle
    /\ UNCHANGED <<mounted, offers, sessionId, url, isLoading, isConnected,
                   scrollTimeout, sinceScroll, burst, tasks>>

\* Unmount: the cleanups of both effects run; nothing is cancelled otherwise.
Unmount ==
    /\ mounted
    /\ mounted' = FALSE
    /\ pc' = CloseCurrent(pc)
    /\ hs' = Closed(peerConnection, hs)
    /\ timers' = WheelCleanup(timers)
    /\ wheelListener' = FALSE
    /\ settled' = NoSettle
    /\ UNCHANGED <<peerConnection, offers, sessionId, error, url, isLoading, isConnected,
                   scrollTimeout, sinceScroll, burst, tasks>>

\* The effects run again on the component that was deactivated, with the state
\* and the refs it had (React keeps them when it hides and shows a component
\* or refreshes its effects): initBrowser() is called a second time and the
\* wheel effect attaches its listener if the video element exists.
Activate ==
    /\ ~mounted
    /\ hs[2] = "idle"
    /\ mounted' = TRUE
    /\ \E created \in BOOLEAN :
        /\ pc' = [pc EXCEPT ![2] = IF created THEN "new" ELSE "none"]
        /\ peerConnection' = (IF created THEN 2 ELSE peerConnection)
        /\ hs' = [hs EXCEPT ![2] = IF created THEN "createOffer" ELSE "failed"]
        /\ error' = (IF created THEN error ELSE ErrorMessage("RTCPeerConnection"))
    /\ wheelListener' = (error = NULL)
    /\ settled' = NoSettle
    /\ UNCHANGED <<offers, sessionId, url, isLoading, isConnected, timers,
                   scrollTimeout, sinceScroll, burst, tasks>>

sessionVars == <<mounted, hs, pc, peerConnection, offers, sessionId, error, isConnected>>
scrollVars == <<wheelListener, timers, scrollTimeout, sinceScroll, burst>>
navVars == <<url, isLoading>>

\* --------------------------------------------------------- scroll coalescer

\* Faulty variant of IsTrackpad: the sign of the delta is not dropped.
IsTrackpadSigned(deltaY) == deltaY < TrackpadThreshold

\* const isTrackpad = Math.abs(e.deltaY) < 50
IsTrackpad(deltaY) == Abs(deltaY) < TrackpadThreshold

\* Twice the multiplier (which is 8 or 3, times 1.5 when timeDiff < 100), so
\* that it stays an integer.
Multiplier2(isTrackpad, timeDiff) ==
    LET base == IF isTrackpad THEN TrackpadMultiplier ELSE WheelMultiplier
    IN IF timeDiff < BurstWindow THEN 3 * base ELSE 2 * base

\* const deltaY = e.deltaY * multiplier (exact: every product here is even)
ScaledDelta(deltaY, timeDiff) ==
    (deltaY * Multiplier2(IsTrackpad(deltaY), timeDiff)) \div 2

\* Faulty variant of ClearTimeout: the pending timeout is not cleared.
ClearTimeoutForgotten(ts, id) == ts

\* if (scrollTimeout.current) clearTimeout(scrollTimeout.current)
ClearTimeout(ts, id) == IF id # 0 THEN {t \in ts : t.id # id} ELSE ts

\* The id setTimeout returns: one no scheduled timeout has.
FreshTimerId(ts) ==
    CHOOSE n \in 1..(Cardinality(ts) + 1) :
        /\ \A t \in ts : t.id # n
        /\ \A m \in 1..(n - 1) : \E t \in ts : t.id = m

\* A scheduled timeout whose delay has passed runs before a wheel event that
\* arrives at or after its deadline.
TimerDue == timers # {} /\ sinceScroll >= ScrollDelay

\* History only: the event continues the burst when it arrives less than
\* ScrollDelay after the previous handled one (n counts 1, 2 = two or more).
BurstAfterWheel(deltaY) ==
    IF burst.n > 0 /\ sinceScroll < ScrollDelay
    THEN [n |-> 2, d |-> deltaY, gap |-> sinceScroll, emitted |-> burst.emitted]
    ELSE [n |-> 1, d |-> deltaY, gap |-> sinceScroll, emitted |-> 0]

\* handleWheelEvent, the listener the wheel effect attaches to the video.
HandleWheelEvent(deltaY) ==
    /\ VideoRendered
    /\ wheelListener
    /\ ~TimerDue
    /\ IF sessionId = NULL
       THEN UNCHANGED scrollVars
       ELSE LET cleared == ClearTimeout(timers, scrollTimeout)
                id == FreshTimerId(cleared)
            IN /\ sinceScroll' = 0
               /\ timers' = cleared \cup
                      {[id |-> id, session_id |-> sessionId,
                        deltaY |-> ScaledDelta(deltaY, sinceScroll),
                        isTrackpad |-> IsTrackpad(deltaY)]}
               /\ scrollTimeout' = id
               /\ burst' = BurstAfterWheel(deltaY)
               /\ UNCHANGED wheelListener
    /\ settled' = NoSettle
    /\ UNCHANGED <<sessionVars, navVars, tasks>>

\* A handler invocation suspended at its fetch(`${apiUrl}/event`, ...).
Request(h, body) == [h |-> h, at |-> "fetch", req |-> body]

\* The setTimeout callback of handleWheelEvent runs ScrollDelay after it was
\* scheduled and posts the scroll event.
ScrollTimeoutFires(t) ==
    /\ t \in timers
    /\ sinceScroll >= ScrollDelay
    /\ CanStart
    /\ timers' = timers \ {t}
    /\ tasks' = Append(tasks, Request("handleWheelEvent",
                    [session_id |-> t.session_id, type |-> "scroll",
                     deltaY |-> t.deltaY, isTrackpad |-> t.isTrackpad]))
    /\ burst' = [burst EXCEPT !.emitted = @ + 1, !.d = 0, !.gap = 0]
    /\ settled' = NoSettle
    /\ UNCHANGED <<sessionVars, navVars, wheelListener, scrollTimeout, sinceScroll>>

\* Time passes, up to the next deadline.
Tick(t) ==
    /\ t \in TimePoints
    /\ t > sinceScroll
    /\ timers # {} => t <= ScrollDelay
    /\ sinceScroll' = t
    /\ settled' = NoSettle
    /\ UNCHANGED <<sessionVars, navVars, wheelListener, timers, scrollTimeout, burst, tasks>>

\* ------------------------------------------------- pointer and key handlers

\* Math.round on a non-negative quotient num / den: the nearest integer, a
\* half going up.  (For the sizes of PointerEvents the double product
\* x * (1280 / width) is never close enough to a half to round differently.)
MathRound(num, den) == (2 * num + den) \div (2 * den)

\* Faulty variant of MapCoordinate: the quotient is truncated.
MapCoordinateTruncated(v, remote, size) == (v * remote) \div size

\* Math.round(x * (1280 / rect.width)), Math.round(y * (720 / rect.height))
MapCoordinate(v, remote, size) == MathRound(v * remote, size)

\* rect = videoRef.current.getBoundingClientRect(); x = e.clientX - rect.left;
\* y = e.clientY - rect.top: the size of the video at the time of the event
\* and the position of the pointer in it.
PointerSizes == {<<200, 100>>, <<3, 7>>, <<RemoteWidth, RemoteHeight>>}
PointerEvents ==
    UNION {{[width |-> sz[1], height |-> sz[2], x |-> px, y |-> py] :
                px \in {0, 1, sz[1] \div 2, sz[1]}, py \in {0, sz[2] \div 2, sz[2]}} :
           sz \in PointerSizes}

\* The pointer event of the user who works the keyboard as well.
PointerSample == [width |-> 200, height |-> 100, x |-> 100, y |-> 50]

HandleMouseMove(e) ==
    /\ VideoRendered
    /\ IF sessionId = NULL
       THEN tasks' = tasks
       ELSE /\ CanStart
            /\ tasks' = Append(tasks, Request("handleMouseMove",
                            [session_id |-> sessionId, type |-> "mouse",
                             x |-> MapCoordinate(e.x, RemoteWidth, e.width),
                             y |-> MapCoordinate(e.y, RemoteHeight, e.height)]))
    /\ settled' = NoSettle
    /\ UNCHANGED <<sessionVars, navVars, scrollVars>>

HandleClick(button, e) ==
    /\ VideoRendered
    /\ IF sessionId = NULL
       THEN tasks' = tasks
       ELSE /\ CanStart
            /\ tasks' = Append(tasks, Request("handleClick",
                            [session_id |-> sessionId, type |-> "mouse",
                             x |-> MapCoordinate(e.x, RemoteWidth, e.width),
                             y |-> MapCoordinate(e.y, RemoteHeight, e.height),
                             click |-> TRUE,
                             button |-> button, clickCount |-> 1]))
    /\ settled' = NoSettle
    /\ UNCHANGED <<sessionVars, navVars, scrollVars>>

HandleContextMenu(e) ==
    /\ VideoRendered
    /\ IF sessionId = NULL
       THEN tasks' = tasks
       ELSE /\ CanStart
            /\ tasks' = Append(tasks, Request("handleContextMenu",
                            [session_id |-> sessionId, type |-> "mouse",
                             x |-> MapCoordinate(e.x, RemoteWidth, e.width),
                             y |-> MapCoordinate(e.y, RemoteHeight, e.height),
                             click |-> TRUE,
                             button |-> 2, clickCount |-> 1]))
    /\ settled' = NoSettle
    /\ UNCHANGED <<sessionVars, navVars, scrollVars>>

\* handleKeyDown: the copy and paste shortcuts, then every other key.
HandleKeyDown(key, ctrl, meta) ==
    /\ VideoRendered
    /\ IF sessionId = NULL
       THEN tasks' = tasks
       ELSE /\ CanStart
            /\ tasks' = Append(tasks,
                  IF (ctrl \/ meta) /\ key = "c"
                  THEN Request("copy", [session_id |-> sessionId, type |-> "clipboard",
                                        action |-> "copy"])
                  ELSE IF (ctrl \/ meta) /\ key = "v"
                  THEN [h |-> "paste", at |-> "readText", sid |-> sessionId]
                  ELSE Request("handleKeyDown",
                           [session_id |-> sessionId, type |-> "keyboard", key |-> key,
                            ctrl |-> ctrl, alt |-> FALSE, shift |-> FALSE, meta |-> meta]))
    /\ settled' = NoSettle
    /\ UNCHANGED <<sessionVars, navVars, scrollVars>>

HandleKeyPress(key) ==
    /\ VideoRendered
    /\ IF sessionId = NULL
       THEN tasks' = tasks
       ELSE /\ CanStart
            /\ tasks' = Append(tasks, Request("handleKeyPress",
                            [session_id |-> sessionId, type |-> "keyboard", text |-> key]))
    /\ settled' = NoSettle
    /\ UNCHANGED <<sessionVars, navVars, scrollVars>>

\* ------------------------------------------------------------- navigation

\* const navigate = async (targetUrl) => { if (!sessionId) return; setIsLoading(true); ... }
Navigate(targetUrl) ==
    IF sessionId = NULL
    THEN UNCHANGED <<isLoading, tasks>>
    ELSE /\ CanStart
         /\ isLoading' = TRUE
         /\ tasks' = Append(tasks, Request("navigate",
                         [session_id |-> sessionId, type |-> "navigate", url |-> targetUrl]))

\* The reload button: onClick={() => navigate(url)}, disabled={isLoading}
Reload ==
    /\ mounted
    /\ ~isLoading
    /\ Navigate(url)
    /\ settled' = NoSettle
    /\ UNCHANGED <<sessionVars, scrollVars, url>>

\* handleSubmit, the onSubmit of the address form.
HandleSubmit ==
    /\ mounted
    /\ Navigate(SubmitTarget(url))
    /\ settled' = NoSettle
    /\ UNCHANGED <<sessionVars, scrollVars, url>>

\* Faulty variant of NavigateAction: the command sets the loading flag.
NavigateActionSetsLoading(action) ==
    /\ mounted
    /\ CanStart
    /\ tasks' = Append(tasks, Request(action,
                    [session_id |-> sessionId, type |-> "navigate", action |-> action]))
    /\ isLoading' = TRUE
    /\ settled' = NoSettle
    /\ UNCHANGED <<sessionVars, scrollVars, url>>

\* The onClick of the back and forward buttons.
NavigateAction(action) ==
    /\ mounted
    /\ CanStart
    /\ tasks' = Append(tasks, Request(action,
                    [session_id |-> sessionId, type |-> "navigate", action |-> action]))
    /\ settled' = NoSettle
    /\ UNCHANGED <<sessionVars, scrollVars, navVars>>

Back == NavigateAction("back")

Forward == NavigateAction("forward")

\* onChange={(e) => setUrl(e.target.value)}
TypeUrl(text) ==
    /\ mounted
    /\ text # url
    /\ url' = text
    /\ settled' = NoSettle
    /\ UNCHANGED <<sessionVars, scrollVars, isLoading, tasks>>

\* --------------------------------------------------- settlement of awaits

\* The handlers whose fetch is awaited inside try/catch or has a .catch.
Catches(h) == h \notin {"back", "forward"}

\* Faulty variant of FetchResolved: navigate updates the URL for an ok response only.
FetchResolvedOnlyOk(i, ok) ==
    /\ i \in 1..Len(tasks)
    /\ tasks[i].at = "fetch"
    /\ LET t == tasks[i]
       IN /\ IF t.h = "navigate"
             THEN /\ url' = (IF ok THEN t.req.url ELSE url)
                  /\ isLoading' = FALSE
                  /\ tasks' = RemoveAt(tasks, i)
             ELSE IF t.h = "copy"
             THEN /\ tasks' = [tasks EXCEPT ![i] = [h |-> "copy", at |-> "json"]]
                  /\ UNCHANGED navVars
             ELSE /\ tasks' = RemoveAt(tasks, i)
                  /\ UNCHANGED navVars
          /\ settled' = [outcome |-> IF ok THEN "ok" ELSE "status", h |-> t.h,
                         req |-> t.req, uncaught |-> FALSE]
    /\ UNCHANGED <<sessionVars, scrollVars>>

\* The fetch of task i resolves with a response (ok or not: no handler looks).
FetchResolved(i, ok) ==
    /\ i \in 1..Len(tasks)
    /\ tasks[i].at = "fetch"
    /\ LET t == tasks[i]
       IN /\ IF t.h = "navigate"
             THEN /\ url' = t.req.url
                  /\ isLoading' = FALSE
                  /\ tasks' = RemoveAt(tasks, i)
             ELSE IF t.h = "copy"
             THEN /\ tasks' = [tasks EXCEPT ![i] = [h |-> "copy", at |-> "json"]]
                  /\ UNCHANGED navVars
             ELSE /\ tasks' = RemoveAt(tasks, i)
                  /\ UNCHANGED navVars
          /\ settled' = [outcome |-> IF ok THEN "ok" ELSE "status", h |-> t.h,
                         req |-> t.req, uncaught |-> FALSE]
    /\ UNCHANGED <<sessionVars, scrollVars>>

\* Faulty variant of FetchRejected: navigate has no finally, the flag stays set.
FetchRejectedKeepsLoading(i) ==
    /\ i \in 1..Len(tasks)
    /\ tasks[i].at = "fetch"
    /\ LET t == tasks[i]
       IN /\ tasks' = RemoveAt(tasks, i)
          /\ settled' = [outcome |-> "rejected", h |-> t.h, req |-> t.req,
                         uncaught |-> ~Catches(t.h)]
    /\ UNCHANGED <<sessionVars, scrollVars, url, isLoading>>

\* Faulty variant of FetchRejected: the catch block sets the error state.
FetchRejectedSetsError(i) ==
    /\ i \in 1..Len(tasks)
    /\ tasks[i].at = "fetch"
    /\ LET t == tasks[i]
       IN /\ tasks' = RemoveAt(tasks, i)
          /\ isLoading' = (IF t.h = "navigate" THEN FALSE ELSE isLoading)
          /\ settled' = [outcome |-> "rejected", h |-> t.h, req |-> t.req,
                         uncaught |-> ~Catches(t.h)]
          /\ error' = (IF Catches(t.h) THEN "Failed to send event" ELSE error)
    /\ UNCHANGED <<mounted, hs, pc, peerConnection, offers, sessionId, isConnected,
                   scrollVars, url>>

\* The fetch of task i rejects (network error).
FetchRejected(i) ==
    /\ i \in 1..Len(tasks)
    /\ tasks[i].at = "fetch"
    /\ LET t == tasks[i]
       IN /\ tasks' = RemoveAt(tasks, i)
          /\ isLoading' = (IF t.h = "navigate" THEN FALSE ELSE isLoading)
          /\ settled' = [outcome |-> "rejected", h |-> t.h, req |-> t.req,
                         uncaught |-> ~Catches(t.h)]
    /\ UNCHANGED <<sessionVars, scrollVars, url>>

\* Faulty variant of CopyJsonResolved: data.text is written without a look at it.
CopyJsonResolvedAlwaysWrites(i, text) ==
    /\ i \in 1..Len(tasks)
    /\ tasks[i].h = "copy" /\ tasks[i].at = "json"
    /\ tasks' = [tasks EXCEPT ![i] = [h |-> "copy", at |-> "writeText", text |-> text]]
    /\ settled' = NoSettle
    /\ UNCHANGED <<sessionVars, scrollVars, navVars>>

\* Copy: await response.json() resolves; if (data.text) writeText(data.text).
CopyJsonResolved(i, text) ==
    /\ i \in 1..Len(tasks)
    /\ tasks[i].h = "copy" /\ tasks[i].at = "json"
    /\ tasks' = (IF text # <<>>
                 THEN [tasks EXCEPT ![i] = [h |-> "copy", at |-> "writeText", text |-> text]]
                 ELSE RemoveAt(tasks, i))
    /\ settled' = NoSettle
    /\ UNCHANGED <<sessionVars, scrollVars, navVars>>

\* Copy: response.json() rejects, or data is null.
CopyJsonRejected(i) ==
    /\ i \in 1..Len(tasks)
    /\ tasks[i].h = "copy" /\ tasks[i].at = "json"
    /\ tasks' = RemoveAt(tasks, i)
    /\ settled' = [outcome |-> "rejected", h |-> "copy", uncaught |-> FALSE]
    /\ UNCHANGED <<sessionVars, scrollVars, navVars>>

\* Copy: await navigator.clipboard.writeText(data.text) settles.
WriteTextSettled(i, ok) ==
    /\ i \in 1..Len(tasks)
    /\ tasks[i].h = "copy" /\ tasks[i].at = "writeText"
    /\ tasks' = RemoveAt(tasks, i)
    /\ settled' = [outcome |-> IF ok THEN "written" ELSE "rejected", h |-> "copy",
                   text |-> tasks[i].text, uncaught |-> FALSE]
    /\ UNCHANGED <<sessionVars, scrollVars, navVars>>

\* Paste: await navigator.clipboard.readText() resolves; the paste is posted.
ReadTextResolved(i, text) ==
    /\ i \in 1..Len(tasks)
    /\ tasks[i].h = "paste" /\ tasks[i].at = "readText"
    /\ tasks' = [tasks EXCEPT ![i] = Request("paste",
                    [session_id |-> tasks[i].sid, type |-> "clipboard",
                     action |-> "paste", text |-> text])]
    /\ settled' = NoSettle
    /\ UNCHANGED <<sessionVars, scrollVars, navVars>>

\* Paste: navigator.clipboard.readText() rejects (permission denied).
ReadTextRejected(i) ==
    /\ i \in 1..Len(tasks)
    /\ tasks[i].h = "paste" /\ tasks[i].at = "readText"
    /\ tasks' = RemoveAt(tasks, i)
    /\ settled' = [outcome |-> "rejected", h |-> "paste", uncaught |-> FALSE]
    /\ UNCHANGED <<sessionVars, scrollVars, navVars>>

\* ---------------------------------------------------------- specification

Handshake ==
    \E a \in Activations :
        \/ CreateOfferResolved(a)
        \/ SetLocalDescriptionResolved(a)
        \/ \E ok \in BOOLEAN : OfferResponse(a, ok)
        \/ ResponseJsonResolved(a)
        \/ SetRemoteDescriptionResolved(a)
        \/ HandshakeRejected(a)
        \/ \E s \in {"connecting", "connected", "disconnected", "failed"} :
               OnConnectionStateChange(a, s)

Lifecycle == StrictRemount \/ Unmount

Scroll ==
    \/ \E d \in WheelDeltas : HandleWheelEvent(d)
    \/ \E t \in timers : ScrollTimeoutFires(t)
    \/ \E t \in TimePoints : Tick(t)

\* The pointer on the video, at every sampled size and position.
Pointer ==
    \E e \in PointerEvents :
        \/ HandleMouseMove(e)
        \/ HandleClick(0, e)
        \/ HandleContextMenu(e)

\* The address form, over every sampled text.
Submit ==
    \/ HandleSubmit
    \/ \E text \in SubmitTexts : TypeUrl(text)

Input ==
    \/ HandleMouseMove(PointerSample)
    \/ HandleClick(0, PointerSample)
    \/ HandleContextMenu(PointerSample)
    \/ \E k \in KeyInputs : HandleKeyDown(k[1], k[2], k[3])
    \/ HandleKeyPress("a")

Navigation ==
    \/ Reload
    \/ HandleSubmit
    \/ Back
    \/ Forward
    \/ \E text \in InputTexts : TypeUrl(text)

FetchSettlement ==
    \E i \in 1..MaxTasks :
        \/ \E ok \in BOOLEAN : FetchResolved(i, ok)
        \/ FetchRejected(i)

ClipboardSettlement ==
    \E i \in 1..MaxTasks :
        \/ \E text \in ClipTexts : CopyJsonResolved(i, text)
        \/ CopyJsonRejected(i)
        \/ \E ok \in BOOLEAN : WriteTextSettled(i, ok)
        \/ \E text \in ClipTexts : ReadTextResolved(i, text)
        \/ ReadTextRejected(i)

Next ==
    \/ Handshake
    \/ Lifecycle
    \/ Scroll
    \/ Input
    \/ Navigation
    \/ FetchSettlement
    \/ ClipboardSettlement

\* Every input of the user, with one handler suspended at a time.
SpecSerial == Init /\ [][Next /\ Len(tasks') <= 1]_vars

\* The user works the navigation bar only; up to MaxTasks handlers overlap.
SpecNav == Init /\ [][Handshake \/ Lifecycle \/ Navigation \/ FetchSettlement]_vars

\* The user scrolls only.
SpecScroll == Init /\ [][Handshake \/ Lifecycle \/ Scroll \/ FetchSettlement]_vars

\* The user works the pointer only, over every sampled size and position, one
\* handler suspended at a time.
SpecPointer ==
    Init /\ [][(Handshake \/ Lifecycle \/ Pointer \/ FetchSettlement) /\ Len(tasks') <= 1]_vars

\* The user works the address form only, over every sampled text, one handler
\* suspended at a time.
SpecSubmit ==
    Init /\ [][(Handshake \/ Lifecycle \/ Submit \/ FetchSettlement) /\ Len(tasks') <= 1]_vars

\* The component is deactivated and activated again at any time, while the
\* user works the back and forward buttons.
SpecReactivate ==
    Init /\ [][Handshake \/ Lifecycle \/ Activate \/ Back \/ Forward \/ FetchSettlement]_vars

\* The user works the pointer and the keyboard on the video only.
SpecInput ==
    Init /\ [][Handshake \/ Lifecycle \/ Input \/ FetchSettlement \/ ClipboardSettlement]_vars

\* ----------------------------------------------------------------- claims

\* The /event requests that are in flight.
InFlight == {i \in 1..Len(tasks) : tasks[i].at = "fetch"}

\* C1: every /event request carries a non-null session identifier, the one the
\* handshake assigned; while there is no session identifier no /event request
\* is issued for any user input, the back and forward commands included.
C1_EveryEventCarriesTheSession ==
    /\ \A i \in InFlight :
           /\ tasks[i].req.session_id # NULL
           /\ \E a \in Activations :
                  /\ hs[a] \in {"setRemoteDescription", "done", "stalled", "failed"}
                  /\ offers[a] = 1
                  /\ tasks[i].req.session_id = SessionIdOf(a)
    /\ sessionId = NULL => InFlight = {}

\* C2: after deactivation the peer connection of the activation is closed, no
\* scroll timer is left to fire, and no /event request is initiated any more,
\* not even by a handler that was suspended at an await (paste waiting for the
\* local clipboard) when the component was deactivated.
C2_NoEventAfterDeactivation ==
    /\ [](~mounted => /\ \A a \in Activations : pc[a] \in {"none", "closed"}
                      /\ timers = {})
    /\ [][~mounted =>
            Cardinality({i \in 1..Len(tasks') : tasks'[i].at = "fetch"})
                <= Cardinality(InFlight)]_vars

\* C3: when a step of the handshake fails the error state is a message, and it
\* stays one in every later state; an activation issues at most one POST /offer.
C3_HandshakeFailureIsTerminal ==
    /\ [](\A a \in Activations :
            /\ hs[a] = "failed" => error # NULL
            /\ offers[a] <= 1)
    /\ [][error # NULL => error' # NULL]_vars

\* C3 witness: the offer was posted once, its response body was malformed, and
\* the error state holds the message.
C3_Witness ==
    \E a \in Activations :
        hs[a] = "failed" /\ offers[a] = 1 /\ error = ErrorMessage("json")

\* The three views of the browser window (the JSX of the component).
ShowsError == error # NULL
ShowsSurface == error = NULL /\ isConnected
\* Faulty variant of ShowsOverlay: the overlay does not look at the error state.
ShowsOverlayIgnoringError == ~isConnected

ShowsOverlay == ~isConnected /\ error = NULL

\* connectionState of the connection the ref holds.
CurrentConnectionState == IF peerConnection = 0 THEN "none" ELSE pc[peerConnection]

\* C4: exactly one of the three views is rendered: the error message whenever
\* a handshake error is present, whatever the connection state; otherwise the
\* surface if and only if the connection is connected; otherwise the overlay.
\* No other connection state shows the surface.
C4_ExactlyOneView ==
    mounted =>
        /\ Cardinality({v \in {"error", "surface", "overlay"} :
               \/ v = "error" /\ ShowsError
               \/ v = "surface" /\ ShowsSurface
               \/ v = "overlay" /\ ShowsOverlay}) = 1
        /\ (\E a \in Activations : hs[a] = "failed") <=> ShowsError
        /\ ShowsSurface <=> (error = NULL /\ CurrentConnectionState = "connected")
        /\ ShowsOverlay <=> (error = NULL /\ CurrentConnectionState # "connected")

\* C4 witness: the connection is connected while a handshake error is present:
\* the error message is what is shown.
C4_Witness ==
    /\ mounted
    /\ CurrentConnectionState = "connected"
    /\ ShowsError /\ ~ShowsSurface /\ ~ShowsOverlay

\* Twice the deltaY the scroll message is to carry for a wheel event with raw
\* delta d that came gap ms after the previous handled one.
ExpectedDelta2(d, gap) ==
    d * (IF Abs(d) < 50 THEN 8 ELSE 3) * (IF gap < 100 THEN 3 ELSE 2)

\* C5: at most one scroll timer is pending at any time; a wheel event handled
\* while a session exists cancels the pending timer and schedules a new one;
\* a burst of wheel events, each less than 16 ms after the previous one, emits
\* exactly one scroll request, and the request carries the scaled deltaY and
\* the isTrackpad of the last event of the burst.
C5_ScrollCoalescing ==
    /\ [](/\ Cardinality(timers) <= 1
          /\ mounted => /\ timers # {} => burst.emitted = 0
                        /\ (timers = {} /\ burst.n > 0) => burst.emitted = 1)
    /\ [][\A d \in WheelDeltas :
            (HandleWheelEvent(d) /\ sessionId # NULL) =>
                /\ Cardinality(timers') = 1
                /\ \A t \in timers' : /\ t.id = scrollTimeout'
                                      /\ 2 * t.deltaY = ExpectedDelta2(d, sinceScroll)
                /\ sinceScroll' = 0]_vars
    /\ [][\A t \in timers :
            ScrollTimeoutFires(t) =>
                LET r == tasks'[Len(tasks')].req
                IN /\ r.type = "scroll"
                   /\ 2 * r.deltaY = ExpectedDelta2(burst.d, burst.gap)
                   /\ r.isTrackpad = (Abs(burst.d) < 50)
                   /\ timers' = {}]_vars

\* C5 witness: a burst of two or more wheel events has emitted its one scroll
\* request, which is in flight, and no timer is pending.
C5_Witness ==
    /\ mounted
    /\ burst.n = 2 /\ burst.emitted = 1
    /\ timers = {}
    /\ \E i \in InFlight : tasks[i].req.type = "scroll" /\ tasks[i].req.deltaY = 480

\* C6: the scheduled scroll message has isTrackpad = (|d| < 50) and
\* deltaY = d * m, m being 8 for a trackpad and 3 otherwise, times 1.5 exactly
\* when the previous handled wheel event was less than 100 ms earlier; the
\* first wheel event ever handled is not boosted; an event 10 ms after another
\* carries 480 for d = 40 and 540 for d = 120.
C6_ScaledDelta ==
    \A t \in timers :
        /\ t.isTrackpad = (Abs(burst.d) < 50)
        /\ 2 * t.deltaY = ExpectedDelta2(burst.d, burst.gap)
        /\ (burst.d = 40 /\ burst.gap = 10) => (t.deltaY = 480 /\ t.isTrackpad)
        /\ (burst.d = 120 /\ burst.gap = 10) => (t.deltaY = 540 /\ ~t.isTrackpad)
        /\ (burst.d = 40 /\ burst.gap >= 100) => t.deltaY = 320
        /\ (burst.d = -120 /\ burst.gap >= 100) => (t.deltaY = -360 /\ ~t.isTrackpad)
        /\ t.session_id = sessionId

\* C6 witness: the second of two wheel events 10 ms apart, with d = 40, is
\* scheduled with the boosted value 480.
C6_Witness ==
    /\ burst.n = 2 /\ burst.d = 40 /\ burst.gap = 10
    /\ \E t \in timers : t.deltaY = 480 /\ t.isTrackpad

\* C7 (as claimed): when the request of a navigate call completes, succeeded,
\* answered with a non-2xx status or failed with a network error alike, the
\* URL state is the URL that was navigated to.
C7_UrlUpdatedOnAnyCompletion ==
    (settled.outcome \in {"ok", "status", "rejected"} /\ settled.h = "navigate")
        => url = settled.req.url

\* C7 (amended): when the request of a navigate call completes with a
\* response, 2xx or not, the URL state becomes the URL that was navigated to;
\* when the request fails with a network error the URL state is left as it was.
C7_UrlUpdatedOnResponse ==
    /\ []((settled.outcome \in {"ok", "status"} /\ settled.h = "navigate")
            => url = settled.req.url)
    /\ [][settled'.outcome = "rejected" => url' = url]_vars

\* C7 witness: "example.com" was submitted, the request was answered with a
\* non-2xx status, and the URL state is https://example.com.
C7_Witness ==
    /\ settled.outcome = "status" /\ settled.h = "navigate"
    /\ settled.req.url = HttpsScheme \o Txt_example_com
    /\ url = HttpsScheme \o Txt_example_com

NavigateInFlight == \E i \in 1..Len(tasks) : tasks[i].h = "navigate"

\* The request of some navigate call settles.
NavigateSettles ==
    \E i \in 1..MaxTasks :
        /\ i <= Len(tasks)
        /\ tasks[i].h = "navigate"
        /\ (\E ok \in BOOLEAN : FetchResolved(i, ok)) \/ FetchRejected(i)

\* Every navigate request settles in the end (the platform's request timeout).
FairSpecNav == SpecNav /\ WF_vars(NavigateSettles)

\* C8: the settling of a navigate request, success or failure, clears the
\* loading flag; the flag is never set when no navigate request is left in
\* flight; a set flag is cleared in the end.
C8_LoadingFlagCleared ==
    /\ []((settled.outcome # "none" /\ settled.h = "navigate") => ~isLoading)
    /\ [](~NavigateInFlight => ~isLoading)
    /\ (isLoading ~> ~isLoading)

\* C8 witness: a navigate request failed with a network error, none is left
\* in flight, and the loading flag is clear.
C8_Witness ==
    /\ settled.outcome = "rejected" /\ settled.h = "navigate"
    /\ ~NavigateInFlight
    /\ ~isLoading

\* C9: the failure of an /event request is caught in the handler that issued
\* it: it never leaves the handler as an unhandled rejection.
C9_FailuresAreCaught == settled.outcome = "rejected" => ~settled.uncaught

\* C10: a failed per-event request and a failed clipboard read or write leave
\* the session identifier, the error state, the connected flag and the peer
\* connection as they were; the error state is set by the handshake only and
\* a peer connection is closed by deactivation only.
C10_FailuresLeaveTheSession ==
    /\ [][settled'.outcome \in {"rejected", "status"} =>
            UNCHANGED <<sessionId, error, isConnected, pc, peerConnection>>]_vars
    /\ [][error' # error => \E a \in Activations : hs[a] # "failed" /\ hs'[a] = "failed"]_vars
    /\ [][(\E a \in Activations : pc[a] # "closed" /\ pc'[a] = "closed") =>
            \/ mounted /\ ~mounted'
            \/ hs[2] = "idle" /\ hs'[2] # "idle"]_vars

\* C10 witness: the local clipboard read of a paste failed while the session
\* was connected, and the session is as it was.
C10_Witness ==
    /\ settled.outcome = "rejected" /\ settled.h = "paste"
    /\ sessionId # NULL /\ error = NULL /\ isConnected
    /\ CurrentConnectionState = "connected"

\* C11: for every sampled surface size and every position in it, move, click
\* and context-menu send x' = round(x * 1280 / w) and y' = round(y * 720 / h)
\* (the nearest integer), computed from the size at the time of the event;
\* x' is in [0, 1280] and y' in [0, 720], (0, 0) maps to (0, 0), (w, h) to
\* (1280, 720); a left click at (100, 50) on 200 x 100 sends type mouse,
\* x 640, y 360, click true, button 0; a context menu sends click true, button 2.
C11_CoordinateMapping ==
    [][\A e \in PointerEvents :
        \A kind \in {"move", "click", "context"} :
          ((\/ kind = "move" /\ HandleMouseMove(e)
            \/ kind = "click" /\ HandleClick(0, e)
            \/ kind = "context" /\ HandleContextMenu(e)) /\ sessionId # NULL) =>
            LET r == tasks'[Len(tasks')].req
            IN /\ Len(tasks') = Len(tasks) + 1
               /\ r.type = "mouse" /\ r.session_id = sessionId
               /\ 2 * e.width * r.x <= 2 * 1280 * e.x + e.width
               /\ 2 * e.width * r.x > 2 * 1280 * e.x - e.width
               /\ 2 * e.height * r.y <= 2 * 720 * e.y + e.height
               /\ 2 * e.height * r.y > 2 * 720 * e.y - e.height
               /\ r.x \in 0..1280 /\ r.y \in 0..720
               /\ (e.x = 0 /\ e.y = 0) => (r.x = 0 /\ r.y = 0)
               /\ (e.x = e.width /\ e.y = e.height) => (r.x = 1280 /\ r.y = 720)
               /\ (e = PointerSample) => (r.x = 640 /\ r.y = 360)
               /\ kind = "move" => DOMAIN r = {"session_id", "type", "x", "y"}
               /\ kind = "click" => (r.click /\ r.button = 0)
               /\ kind = "context" => (r.click /\ r.button = 2)]_vars

\* C11 witness: with session "abc" a left click at (100, 50) on a 200 x 100
\* surface is in flight as type mouse, x 640, y 360, click true, button 0.
C11_Witness ==
    \E i \in InFlight :
        /\ tasks[i].h = "handleClick"
        /\ tasks[i].req.session_id = "abc" /\ tasks[i].req.type = "mouse"
        /\ tasks[i].req.x = 640 /\ tasks[i].req.y = 360
        /\ tasks[i].req.click /\ tasks[i].req.button = 0

\* The text begins with http:// or https://.
HasScheme(s) == StartsWith(s, HttpScheme) \/ StartsWith(s, HttpsScheme)

\* C12: on submit, for every (trimmed) text that matches the URL pattern the
\* URL passed to navigate begins with a scheme: it is the text itself when the
\* text begins with http:// or https://, and https:// followed by the text
\* otherwise, hosts that merely start with the letters "http" included; every
\* other text is navigated to the search URL whose q is the percent-encoded
\* text ("example.com" gives https://example.com, "buy milk" q=buy%20milk).
C12_SubmitClassification ==
    [][(HandleSubmit /\ sessionId # NULL) =>
        LET input == Trim(url)
            target == tasks'[Len(tasks')].req.url
        IN /\ IsUrl(input) =>
                /\ HasScheme(target)
                /\ target = (IF HasScheme(input) THEN input ELSE HttpsScheme \o input)
           /\ ~IsUrl(input) =>
                \E q \in {EncodeURIComponent(input)} :
                    /\ target = SearchPrefix \o q
                    /\ \A i \in 1..Len(q) : q[i] \notin {" ", "&", "/", "?", "=", ":"}
           /\ input = Txt_example_com => target = HttpsScheme \o Txt_example_com
           /\ input = Txt_buy_milk =>
                target = SearchPrefix \o <<"b", "u", "y", "%", "2", "0", "m", "i", "l", "k">>]_vars

\* C13: the session identifier is non-null only if the handshake of the
\* current activation completed (the answer was received and applied as the
\* remote description); in no reachable state are a session identifier and
\* the handshake error both set; once set the identifier does not change.
C13_SessionOnlyAfterHandshake ==
    /\ [](sessionId # NULL =>
            /\ peerConnection # 0
            /\ hs[peerConnection] = "done"
            /\ sessionId = SessionIdOf(peerConnection)
            /\ error = NULL)
    /\ [][sessionId # NULL => sessionId' = sessionId]_vars

\* C14: no /event request is initiated unless the peer connection is in state
\* connected at that time: an input that arrives before the connection is
\* connected, or after it left that state, is dropped, the navigate, reload,
\* back and forward commands of the navigation bar included.
C14_NoEventUnlessConnected ==
    [][Cardinality({i \in 1..Len(tasks') : tasks'[i].at = "fetch"}) > Cardinality(InFlight)
          => CurrentConnectionState = "connected"]_vars

\* An input is deferred: its request is still to be initiated, by the scroll
\* timer that has not run out or by a paste waiting for the local clipboard.
ScrollDeferred == timers # {} /\ sinceScroll < ScrollDelay
PasteDeferred == \E i \in 1..Len(tasks) : tasks[i].at = "readText"

\* This step appends a handler that is suspended at its /event request: a
\* later input has its request initiated at once.
InputInitiatesRequest ==
    /\ Len(tasks') = Len(tasks) + 1
    /\ SubSeq(tasks', 1, Len(tasks)) = tasks
    /\ tasks'[Len(tasks')].at = "fetch"
    /\ timers' = timers

\* C15: /event requests are initiated in the order of the inputs that caused
\* them: while a wheel event is deferred by the coalescer or a paste by the
\* local clipboard read, no later input (a click, a key press) has its
\* request initiated ahead of the deferred one.
C15_RequestOrderIsInputOrder ==
    [][(ScrollDeferred \/ PasteDeferred) => ~InputInitiatesRequest]_vars

\* C16: the back and the forward command each issue one navigate request that
\* carries the action back or forward, and leave the URL string and the
\* loading flag as they are, when the command is given and when its request
\* settles (resolved or rejected).
C16_BackForwardLeaveNavigationState ==
    /\ [][\A action \in {"back", "forward"} :
            NavigateAction(action) =>
                /\ Len(tasks') = Len(tasks) + 1
                /\ SubSeq(tasks', 1, Len(tasks)) = tasks
                /\ tasks'[Len(tasks')].at = "fetch"
                /\ tasks'[Len(tasks')].req =
                       [session_id |-> sessionId, type |-> "navigate", action |-> action]
                /\ url' = url /\ isLoading' = isLoading]_vars
    /\ [][(settled'.outcome # "none" /\ settled'.h \in {"back", "forward"}) =>
            (url' = url /\ isLoading' = isLoading)]_vars
    /\ [][(\E i \in 1..Len(tasks) : tasks[i].h \in {"back", "forward"}) =>
            \/ UNCHANGED navVars
            \/ \E text \in InputTexts : TypeUrl(text)
            \/ Reload \/ HandleSubmit
            \/ \E i \in 1..Len(tasks) :
                   tasks[i].h = "navigate" /\ tasks'= RemoveAt(tasks, i)]_vars

\* C16 witness: the request of a back command has settled while a navigate
\* request is in flight; the URL is the initial one and the flag is still set.
C16_Witness ==
    /\ settled.outcome = "ok" /\ settled.h = "back"
    /\ settled.req.action = "back"
    /\ url = InitialUrl /\ isLoading /\ NavigateInFlight

\* The key-down events that are clipboard shortcuts.
Shortcuts == {k \in KeyInputs : (k[2] \/ k[3]) /\ k[1] \in {"c", "v"}}

\* What C17 says of the requests: a shortcut key-down, while a session exists,
\* starts one clipboard exchange and no keyboard request; copy posts the copy
\* request at once and calls writeText if and only if the response holds a
\* non-empty text, with exactly that text; paste posts the text read from the
\* local clipboard, and posts nothing when the read fails.
ShortcutRequests ==
    /\ [][\A k \in Shortcuts :
            (HandleKeyDown(k[1], k[2], k[3]) /\ sessionId # NULL) =>
                LET t == tasks'[Len(tasks')]
                IN /\ Len(tasks') = Len(tasks) + 1
                   /\ IF k[1] = "c"
                      THEN /\ t.at = "fetch"
                           /\ t.req = [session_id |-> sessionId, type |-> "clipboard",
                                       action |-> "copy"]
                      ELSE t.at = "readText"]_vars
    /\ [][\A i \in 1..Len(tasks) : \A text \in ClipTexts :
            /\ CopyJsonResolved(i, text) =>
                 IF text # <<>>
                 THEN tasks'[i].at = "writeText" /\ tasks'[i].text = text
                 ELSE Len(tasks') = Len(tasks) - 1
            /\ ReadTextResolved(i, text) =>
                 /\ tasks'[i].at = "fetch"
                 /\ tasks'[i].req = [session_id |-> sessionId, type |-> "clipboard",
                                     action |-> "paste", text |-> text]
                 /\ Len(tasks') = Len(tasks)
            /\ ReadTextRejected(i) =>
                 /\ Len(tasks') = Len(tasks) - 1
                 /\ Cardinality({j \in 1..Len(tasks') : tasks'[j].at = "fetch"})
                        = Cardinality(InFlight)]_vars
    /\ [](\A i \in 1..Len(tasks) : tasks[i].at = "writeText" => tasks[i].text # <<>>)

\* The copy handler has got a response with a non-empty text and has finished.
CopyFinishedWithText == "text" \in DOMAIN settled /\ settled.h = "copy"

\* C17 (as claimed): the above, and for copy the local clipboard is written
\* if and only if the response holds a non-empty text, with exactly that text.
C17_ClipboardShortcuts ==
    /\ ShortcutRequests
    /\ [](CopyFinishedWithText => (settled.outcome = "written" /\ settled.text # <<>>))

\* C17 (amended): the above, and for copy writeText is called if and only if
\* the response holds a non-empty text; the clipboard then holds exactly that
\* text when the write succeeds, and a write that fails is caught and leaves
\* the clipboard alone.
C17_ClipboardShortcutsWriteMayFail ==
    /\ ShortcutRequests
    /\ [](CopyFinishedWithText =>
            /\ settled.text # <<>>
            /\ settled.outcome \in {"written", "rejected"}
            /\ ~settled.uncaught)

\* C17 witness: the copy shortcut got the text "t" in the response and wrote
\* it to the local clipboard.
C17_Witness ==
    CopyFinishedWithText /\ settled.outcome = "written" /\ settled.text = <<"t">>

\* C18: the loading flag is set exactly while at least one navigate request
\* is in flight; when two navigate calls overlap the flag stays set until the
\* last of them has settled.
C18_LoadingWhileNavigateInFlight == isLoading <=> NavigateInFlight

\* The peer connections that are open.
OpenConnections == {a \in Activations : pc[a] \notin {"none", "closed"}}

\* C19: across deactivation and a later activation of the same component at
\* most one peer connection is open at a time, and once the later activation
\* has begun no step of the earlier activation's handshake changes the error
\* state or the session identifier.
C19_EarlierActivationIsInert ==
    /\ [](Cardinality(OpenConnections) <= 1)
    /\ [][(hs[2] # "idle" /\ hs'[1] # hs[1]) =>
            (error' = error /\ sessionId' = sessionId)]_vars

\* The scroll timeout runs out and its callback posts the scroll event.
ScrollEmits == \E t \in timers : ScrollTimeoutFires(t)

\* Time passes, a timeout that has run out is run, and every request settles.
FairSpecScroll ==
    /\ SpecScroll
    /\ WF_vars(ScrollEmits)
    /\ WF_vars(\E t \in TimePoints : Tick(t))
    /\ WF_vars(FetchSettlement)

\* C20: scroll input is not starved: whenever a wheel event has been handled
\* while a session exists (its timeout is scheduled) and the component stays
\* active, a scroll request is emitted in the end, also when further wheel
\* events keep arriving less than 16 ms apart.
C20_ScrollNotStarved ==
    (mounted /\ timers # {}) ~> (burst.emitted > 0 \/ ~mounted)

====
